---- MODULE Spec2Model ----
(***************************************************************************)
(* Model of download.py: a chunked HTTP downloader that leases SOCKS proxy *)
(* ports from a PortManager, probes the remote size, fetches 1 MiB ranges  *)
(* through a thread pool, keeps every chunk in a partial file and finally  *)
(* concatenates the partial files into the output file.                    *)
(*                                                                         *)
(* Thread 0 is the main thread; threads 1..thread_count are the workers of *)
(* multiprocessing.dummy.Pool.  Ports are named by their index in          *)
(* PortManager.ports (port k has value --sport + k - 1).                   *)
(***************************************************************************)
EXTENDS Integers, Sequences, FiniteSets, TLC

\* ---------------------------------------------------------------- bounds
MaxThreads == 2          \* largest --threads value explored
MaxChunks == 2           \* largest number of chunks of the remote file

\* ------------------------------------------------------ program constants
MAX_RETRIES == 5
chunksize == 1048576     \* 1 << 20

MainThread == 0
Workers == 1..MaxThreads
Threads == {MainThread} \cup Workers
ChunkIds == 0..(MaxChunks - 1)

VARIABLES
    thread_count,   \* args.threads: number of ports and of pool workers
    busy,           \* busy[k]: Port.busy of ports[k]
    lock,           \* PortManager.lock: the set of threads holding it (empty or one)
    pc,             \* pc[t]: the statement thread t executes next
    ret,            \* ret[t]: where t continues after get_port / return_port
    port,           \* port[t]: the local variable `port` of t's function (0: unbound)
    scan,           \* scan[t]: position of t's `for port in self.ports` loop
    size,           \* main's `size`: <<>> is None, <<n>> the integer n
    head_resp,      \* what the server answered to the HEAD probe
    get_resp,       \* what the server answered to the ranged GET probe
    i,              \* main's loop variable `i`
    taskq,          \* the pool's task queue: chunk indices submitted, not yet taken
    result,         \* the AsyncResult main waits on
    task,           \* task[w]: the chunk index worker w runs download_chunk for
    retries,        \* retries[w]: download_chunk's `retries`
    data,           \* data[w]: len(response.content) of w's last response
    files,          \* files[c]: the partial file <base>.progress.c
    files0,         \* the partial files as the run found them
    output,         \* the output file: exists flag and the chunks written to it
    probe_requests, \* number of requests get_file_size has sent
    sent,           \* sent[w]: number of requests w's download_chunk call has sent
    dispatched,     \* the chunk indices handed to pool.apply_async, in order
    settled,        \* settled[c]: how chunk c's turn in the dispatch loop ended
    io_errors,      \* number of OSErrors raised by file operations so far
    exit_code       \* the process's exit status (-1 while it runs)

vars == <<thread_count, busy, lock, pc, ret, port, scan, size, head_resp, get_resp,
          i, taskq, result, task, retries, data, files, files0, output, probe_requests, sent,
          dispatched, settled, io_errors, exit_code>>

pmvars == <<busy, lock, port, scan>>
runvars == <<size, head_resp, get_resp, i, taskq, result, task, retries, data, files,
             files0, output, probe_requests, sent, dispatched, settled, io_errors, exit_code>>

\* ------------------------------------------------------------ PortManager
Ports == 1..thread_count

\* The process ends when the main thread ends: sys.exit, an uncaught exception or
\* the end of main().
TerminalLabels == {"exit_size", "exit_verify", "crashed", "done"}
Alive == pc[MainThread] \notin TerminalLabels

\* `with self.lock:` is entered only while no thread holds the lock.
LockAvailable_NoMutex(t) == TRUE
LockAvailable(t) == lock = {}

\* get_port, line 24: `for port in self.ports` starts at the first port of the list,
\* whichever thread is calling.
ScanStart_PerThread(t) == IF t \in Ports THEN t ELSE 1
ScanStart(t) == 1

\* get_port, line 22: acquire the lock, then start `for port in self.ports`.
GetPortLock(t) ==
    /\ Alive
    /\ pc[t] = "gp_lock"
    /\ LockAvailable(t)
    /\ lock' = lock \cup {t}
    /\ scan' = [scan EXCEPT ![t] = ScanStart(t)]
    /\ pc' = [pc EXCEPT ![t] = "gp_scan"]
    /\ UNCHANGED <<thread_count, busy, ret, port>>
    /\ UNCHANGED runvars

\* get_port, lines 23-25: one step of `while True: for port in self.ports:`. Past the
\* last port the for loop is exhausted and `while True` starts it again; otherwise
\* `port.busy` of the port under the scan is tested. The lock stays held while the
\* loops spin.
GetPortScan(t) ==
    /\ Alive
    /\ pc[t] = "gp_scan"
    /\ IF scan[t] > thread_count
          THEN /\ scan' = [scan EXCEPT ![t] = ScanStart(t)]
               /\ pc' = pc
          ELSE IF ~busy[scan[t]]
                  THEN /\ pc' = [pc EXCEPT ![t] = "gp_take"]
                       /\ scan' = scan
                  ELSE /\ scan' = [scan EXCEPT ![t] = scan[t] + 1]
                       /\ pc' = pc
    /\ UNCHANGED <<thread_count, busy, lock, ret, port>>
    /\ UNCHANGED runvars

\* get_port, lines 26-27: mark the port busy, return it; leaving `with` frees the lock.
GetPortTake(t) ==
    /\ Alive
    /\ pc[t] = "gp_take"
    /\ busy' = [busy EXCEPT ![scan[t]] = TRUE]
    /\ port' = [port EXCEPT ![t] = scan[t]]
    /\ lock' = lock \ {t}
    /\ pc' = [pc EXCEPT ![t] = ret[t]]
    /\ UNCHANGED <<thread_count, ret, scan>>
    /\ UNCHANGED runvars

\* return_port, line 30: acquire the lock.
ReturnPortLock(t) ==
    /\ Alive
    /\ pc[t] = "rp_lock"
    /\ LockAvailable(t)
    /\ lock' = lock \cup {t}
    /\ pc' = [pc EXCEPT ![t] = "rp_free"]
    /\ UNCHANGED <<thread_count, busy, ret, port, scan>>
    /\ UNCHANGED runvars

\* return_port, line 31: port.busy = False; leaving `with` frees the lock.
ReturnPortFree(t) ==
    /\ Alive
    /\ pc[t] = "rp_free"
    /\ busy' = [busy EXCEPT ![port[t]] = FALSE]
    /\ lock' = lock \ {t}
    /\ pc' = [pc EXCEPT ![t] = ret[t]]
    /\ UNCHANGED <<thread_count, ret, port, scan>>
    /\ UNCHANGED runvars

PortManagerStep(t) ==
    \/ GetPortLock(t)
    \/ GetPortScan(t)
    \/ GetPortTake(t)
    \/ ReturnPortLock(t)
    \/ ReturnPortFree(t)

NoFile == [exists |-> FALSE, size |-> 0, ver |-> "none"]
File(s, v) == [exists |-> TRUE, size |-> s, ver |-> v]
NoOutput == [exists |-> FALSE, chunks |-> <<>>]


\* ------------------------------------------------------------- the plan
\* main, line 153: num_chunks = (size + chunksize - 1) // chunksize
NumChunks_Floor(n) == n \div chunksize
NumChunks(n) == (n + chunksize - 1) \div chunksize

Min(a, b) == IF a <= b THEN a ELSE b

\* main, line 162: byterange = (i * chunksize, min((i + 1) * chunksize - 1, size - 1))
RangeFirst(n, c) == c * chunksize
RangeLast_OffByOne(n, c) == Min((c + 1) * chunksize, n - 1)
RangeLast(n, c) == Min((c + 1) * chunksize - 1, n - 1)

\* main, lines 158 and 169: min(chunksize, size - i * chunksize)
ExpectedFileSize_FullChunk(n, c) == chunksize
ExpectedFileSize(n, c) == Min(chunksize, n - c * chunksize)

\* download_chunk, lines 99 and 106: byterange[1] - byterange[0] + 1
RangeLength(tk) == tk.last - tk.first + 1

\* main, line 158: os.path.exists(progress_file) and os.path.getsize(progress_file) == ...
Resumable_ExistsOnly(n, c) == files[c].exists
Resumable(n, c) == files[c].exists /\ files[c].size = ExpectedFileSize(n, c)

\* main, line 169: not os.path.exists(progress_file) or os.path.getsize(progress_file) != ...
MissingOrWrongSize_FullChunk(n, c) == ~files[c].exists \/ files[c].size # chunksize
MissingOrWrongSize_MissingOnly(n, c) == ~files[c].exists
MissingOrWrongSize(n, c) == ~files[c].exists \/ files[c].size # ExpectedFileSize(n, c)

\* ------------------------------------------------------------ environment
\* Total sizes the server may declare: around every multiple of the chunk size.
SizeValues ==
    {k * chunksize + d : k \in 0..(MaxChunks - 1), d \in {1, chunksize - 1, chunksize}}
DeclaredValues == SizeValues \cup {0, -1}

Resp(k, n) == [kind |-> k, n |-> n]
NoResp == Resp("none", 0)

\* requests.head: a transport error or timeout, a non-2xx status (raise_for_status),
\* or a 2xx answer whose content-length is absent, not an integer, or an integer.
HeadResponses ==
    {Resp("error", 0), Resp("status", 0), Resp("no_length", 0), Resp("bad_length", 0)}
        \cup {Resp("length", n) : n \in DeclaredValues}

\* requests.get with Range: bytes=0-0: as above, with the total after the slash of
\* content-range.
GetResponses ==
    {Resp("error", 0), Resp("status", 0), Resp("no_range", 0), Resp("bad_range", 0)}
        \cup {Resp("range", n) : n \in DeclaredValues}

\* requests.get of a chunk: an error, a bad status, or a body one byte short, exact,
\* or one byte long.
ChunkResponses(tk) ==
    {Resp("error", 0), Resp("status", 0)}
        \cup {Resp("body", RangeLength(tk) + d) : d \in {-1, 0, 1}}

\* A partial file found in /tmp when the run starts: none, or one left by an earlier
\* run, holding the server's bytes or other bytes.
InitialFiles ==
    {NoFile} \cup {File(s, v) : s \in {1, chunksize}, v \in {"srv", "other"}}

Pending == [kind |-> "pending", first |-> 0, len |-> 0]
NoResult == [kind |-> "none", first |-> 0, len |-> 0]
NoTask == [chunk |-> 0, first |-> 0, last |-> 0]

IsNone(s) == s = <<>>
Val(s) == s[1]

\* A function returns: its local `port` and its place in get_port's loop are gone.
DropLocals(t) ==
    /\ port' = [port EXCEPT ![t] = 0]
    /\ scan' = [scan EXCEPT ![t] = 1]
    /\ ret' = [ret EXCEPT ![t] = "none"]

\* ---------------------------------------------------------- get_file_size
\* line 51: port_manager.return_port(port), before any request is made.
GfsReturnPort ==
    /\ pc[MainThread] = "gfs_leased"
    /\ pc' = [pc EXCEPT ![MainThread] = "rp_lock"]
    /\ ret' = [ret EXCEPT ![MainThread] = "gfs_head"]
    /\ UNCHANGED <<thread_count, busy, lock, port, scan>>
    /\ UNCHANGED runvars

\* line 55: requests.head(...) is sent through the proxy of `port`.
GfsHeadSend ==
    /\ pc[MainThread] = "gfs_head"
    /\ probe_requests' = probe_requests + 1
    /\ pc' = [pc EXCEPT ![MainThread] = "gfs_head_wait"]
    /\ UNCHANGED <<thread_count, busy, lock, ret, port, scan>>
    /\ UNCHANGED <<size, head_resp, get_resp, i, taskq, result, task, retries, data, files,
                   files0, output, sent, dispatched, settled, io_errors, exit_code>>

\* lines 55-59: the HEAD answer. int() of a malformed content-length raises
\* ValueError, which nothing catches.
GfsHeadResponse(r) ==
    /\ pc[MainThread] = "gfs_head_wait"
    /\ head_resp' = r
    /\ CASE r.kind \in {"error", "status"} ->
              /\ pc' = [pc EXCEPT ![MainThread] = "gfs_get"]
              /\ UNCHANGED <<size, exit_code>>
         [] r.kind = "no_length" ->
              /\ size' = <<0>>
              /\ pc' = [pc EXCEPT ![MainThread] = "main_check"]
              /\ UNCHANGED exit_code
         [] r.kind = "length" ->
              /\ size' = <<r.n>>
              /\ pc' = [pc EXCEPT ![MainThread] = "main_check"]
              /\ UNCHANGED exit_code
         [] r.kind = "bad_length" ->
              /\ pc' = [pc EXCEPT ![MainThread] = "crashed"]
              /\ exit_code' = 1
              /\ UNCHANGED size
    /\ IF r.kind \in {"error", "status"}
          THEN UNCHANGED <<ret, port, scan>>
          ELSE DropLocals(MainThread)
    /\ UNCHANGED <<thread_count, busy, lock>>
    /\ UNCHANGED <<get_resp, i, taskq, result, task, retries, data, files, files0, output,
                   probe_requests, sent, dispatched, settled, io_errors>>

\* lines 64-75: what get_file_size returns for the answer to the ranged GET: the
\* total of content-range, or None.
GetResult_Default(r) == IF r.kind = "range" THEN <<r.n>> ELSE <<chunksize>>
GetResult(r) == IF r.kind = "range" THEN <<r.n>> ELSE <<>>

\* line 63: requests.get(... Range: bytes=0-0 ...) through the same `proxies`.
GfsGetSend ==
    /\ pc[MainThread] = "gfs_get"
    /\ probe_requests' = probe_requests + 1
    /\ pc' = [pc EXCEPT ![MainThread] = "gfs_get_wait"]
    /\ UNCHANGED <<thread_count, busy, lock, ret, port, scan>>
    /\ UNCHANGED <<size, head_resp, get_resp, i, taskq, result, task, retries, data, files,
                   files0, output, sent, dispatched, settled, io_errors, exit_code>>

\* lines 63-75: the GET answer.
GfsGetResponse(r) ==
    /\ pc[MainThread] = "gfs_get_wait"
    /\ get_resp' = r
    /\ CASE r.kind \in {"error", "status", "no_range", "range"} ->
              /\ size' = GetResult(r)
              /\ pc' = [pc EXCEPT ![MainThread] = "main_check"]
              /\ UNCHANGED exit_code
         [] r.kind = "bad_range" ->
              /\ pc' = [pc EXCEPT ![MainThread] = "crashed"]
              /\ exit_code' = 1
              /\ UNCHANGED size
    /\ DropLocals(MainThread)
    /\ UNCHANGED <<thread_count, busy, lock>>
    /\ UNCHANGED <<head_resp, i, taskq, result, task, retries, data, files, files0, output,
                   probe_requests, sent, dispatched, settled, io_errors>>

\* ------------------------------------------------------------------ main
\* lines 140-142: `if not size or size <= 0` (None and 0 are both falsy).
SizeUnknown(s) == IF IsNone(s) THEN TRUE ELSE (Val(s) = 0 \/ Val(s) <= 0)

\* lines 140-142: print the error and sys.exit(1).
MainExitUnknownSize ==
    /\ pc[MainThread] = "main_check"
    /\ SizeUnknown(size)
    /\ exit_code' = 1
    /\ pc' = [pc EXCEPT ![MainThread] = "exit_size"]
    /\ UNCHANGED <<thread_count, busy, lock, ret, port, scan>>
    /\ UNCHANGED <<size, head_resp, get_resp, i, taskq, result, task, retries, data, files,
                   files0, output, probe_requests, sent, dispatched, settled, io_errors>>

\* lines 144-153: Pool(thread_count) starts the workers, every busy flag is cleared,
\* the loop over range(num_chunks) starts. Nothing of get_file_size's answers is left
\* but `size`.
MainSetup ==
    /\ pc[MainThread] = "main_check"
    /\ ~SizeUnknown(size)
    /\ pc' = [t \in Threads |->
                IF t = MainThread THEN "loop"
                ELSE IF t <= thread_count THEN "idle" ELSE pc[t]]
    /\ busy' = [k \in Ports |-> FALSE]
    /\ i' = 0
    /\ head_resp' = NoResp
    /\ get_resp' = NoResp
    /\ UNCHANGED <<thread_count, lock, ret, port, scan>>
    /\ UNCHANGED <<size, taskq, result, task, retries, data, files,
                   files0, output, probe_requests, sent, dispatched, settled, io_errors, exit_code>>

\* lines 156-160: the partial file is there with the expected size: skip the chunk.
MainSkip ==
    /\ pc[MainThread] = "loop"
    /\ i < NumChunks(Val(size))
    /\ Resumable(Val(size), i)
    /\ settled' = [settled EXCEPT ![i] = "skipped"]
    /\ i' = i + 1
    /\ UNCHANGED <<thread_count, busy, lock, pc, ret, port, scan>>
    /\ UNCHANGED <<size, head_resp, get_resp, taskq, result, task, retries, data, files,
                   files0, output, probe_requests, sent, dispatched, io_errors, exit_code>>

\* lines 162-163: pool.apply_async(download_chunk, (url, byterange, progress_file, ...)).
MainDispatch ==
    /\ pc[MainThread] = "loop"
    /\ i < NumChunks(Val(size))
    /\ ~Resumable(Val(size), i)
    /\ taskq' = Append(taskq, [chunk |-> i,
                               first |-> RangeFirst(Val(size), i),
                               last |-> RangeLast(Val(size), i)])
    /\ result' = Pending
    /\ dispatched' = Append(dispatched, i)
    /\ pc' = [pc EXCEPT ![MainThread] = "wait"]
    /\ UNCHANGED <<thread_count, busy, lock, ret, port, scan>>
    /\ UNCHANGED <<size, head_resp, get_resp, i, task, retries, data, files, files0,
                   output, probe_requests, sent, settled, io_errors, exit_code>>

\* lines 156, 164: `for i in range(num_chunks)` goes on to the next chunk whatever
\* download_chunk returned.
NextIndex_RetryFailed(k, kind) == IF kind = "failed" THEN k ELSE k + 1
NextIndex(k, kind) == k + 1

\* line 164: result.get() returns what download_chunk returned, or raises what it
\* raised; an exception ends main with a traceback (status 1).
MainGetResult ==
    /\ pc[MainThread] = "wait"
    /\ result.kind \notin {"pending", "none"}
    /\ settled' = [settled EXCEPT ![i] = result.kind]
    /\ IF result.kind = "raised"
          THEN /\ pc' = [pc EXCEPT ![MainThread] = "crashed"]
               /\ exit_code' = 1
               /\ i' = i
          ELSE /\ pc' = [pc EXCEPT ![MainThread] = "loop"]
               /\ i' = NextIndex(i, result.kind)
               /\ exit_code' = exit_code
    /\ UNCHANGED <<thread_count, busy, lock, ret, port, scan>>
    /\ UNCHANGED <<size, head_resp, get_resp, taskq, result, task, retries, data, files,
                   files0, output, probe_requests, sent, dispatched, io_errors>>

\* line 156 exhausted: go on to the verification loop of line 167.
MainLoopEnd ==
    /\ pc[MainThread] = "loop"
    /\ i >= NumChunks(Val(size))
    /\ i' = 0
    /\ pc' = [pc EXCEPT ![MainThread] = "verify"]
    /\ UNCHANGED <<thread_count, busy, lock, ret, port, scan>>
    /\ UNCHANGED <<size, head_resp, get_resp, taskq, result, task, retries, data, files,
                   files0, output, probe_requests, sent, dispatched, settled, io_errors, exit_code>>

\* lines 167-171: every partial file must exist with the expected size, else exit(1).
MainVerify ==
    /\ pc[MainThread] = "verify"
    /\ i < NumChunks(Val(size))
    /\ IF MissingOrWrongSize(Val(size), i)
          THEN /\ pc' = [pc EXCEPT ![MainThread] = "exit_verify"]
               /\ exit_code' = 1
               /\ i' = i
          ELSE /\ i' = i + 1
               /\ UNCHANGED <<pc, exit_code>>
    /\ UNCHANGED <<thread_count, busy, lock, ret, port, scan>>
    /\ UNCHANGED <<size, head_resp, get_resp, taskq, result, task, retries, data, files,
                   files0, output, probe_requests, sent, dispatched, settled, io_errors>>

\* line 173: open(filename, 'wb') creates or truncates the output file, or raises.
MainOpenOutput(ok) ==
    /\ pc[MainThread] = "verify"
    /\ i >= NumChunks(Val(size))
    /\ IF ok
          THEN /\ output' = [exists |-> TRUE, chunks |-> <<>>]
               /\ i' = 0
               /\ pc' = [pc EXCEPT ![MainThread] = "concat"]
               /\ UNCHANGED <<io_errors, exit_code>>
          ELSE /\ io_errors' = io_errors + 1
               /\ pc' = [pc EXCEPT ![MainThread] = "crashed"]
               /\ exit_code' = 1
               /\ UNCHANGED <<output, i>>
    /\ UNCHANGED <<thread_count, busy, lock, ret, port, scan>>
    /\ UNCHANGED <<size, head_resp, get_resp, taskq, result, task, retries, data, files,
                   files0, probe_requests, sent, dispatched, settled>>

\* What one pass of the concatenation loop can do: copy and remove, or raise while
\* reading the partial file, while writing the output, or while removing.
ConcatOutcomes == {"ok", "read_error", "write_error", "remove_error"}

\* lines 174-178: append partial file i to the output, then os.remove it.
MainConcat(o) ==
    /\ pc[MainThread] = "concat"
    /\ i < NumChunks(Val(size))
    /\ output' = IF o \in {"ok", "remove_error"}
                    THEN [output EXCEPT !.chunks = Append(@, [chunk |-> i,
                                                              size |-> files[i].size,
                                                              ver |-> files[i].ver])]
                    ELSE output
    /\ files' = IF o = "ok" THEN [files EXCEPT ![i] = NoFile] ELSE files
    /\ IF o = "ok"
          THEN /\ i' = i + 1
               /\ UNCHANGED <<pc, io_errors, exit_code>>
          ELSE /\ io_errors' = io_errors + 1
               /\ pc' = [pc EXCEPT ![MainThread] = "crashed"]
               /\ exit_code' = 1
               /\ i' = i
    /\ UNCHANGED <<thread_count, busy, lock, ret, port, scan>>
    /\ UNCHANGED <<size, head_resp, get_resp, taskq, result, task, retries, data, files0,
                   probe_requests, sent, dispatched, settled>>

\* line 178 done for the last chunk: main returns, the process exits with status 0.
MainDone ==
    /\ pc[MainThread] = "concat"
    /\ i >= NumChunks(Val(size))
    /\ pc' = [pc EXCEPT ![MainThread] = "done"]
    /\ exit_code' = 0
    /\ UNCHANGED <<thread_count, busy, lock, ret, port, scan>>
    /\ UNCHANGED <<size, head_resp, get_resp, i, taskq, result, task, retries, data, files,
                   files0, output, probe_requests, sent, dispatched, settled, io_errors>>

\* --------------------------------------------------------- download_chunk
\* A pool worker takes the next task; download_chunk starts with get_port (line 78)
\* and retries = 0 (line 91).
WorkerTake(w) ==
    /\ Alive
    /\ pc[w] = "idle"
    /\ taskq # <<>>
    /\ task' = [task EXCEPT ![w] = Head(taskq)]
    /\ taskq' = Tail(taskq)
    /\ retries' = [retries EXCEPT ![w] = 0]
    /\ pc' = [pc EXCEPT ![w] = "gp_lock"]
    /\ ret' = [ret EXCEPT ![w] = "dc_loop"]
    /\ UNCHANGED <<thread_count, busy, lock, port, scan>>
    /\ UNCHANGED <<size, head_resp, get_resp, i, result, data, files, files0, output,
                   probe_requests, sent, dispatched, settled, io_errors, exit_code>>

\* line 92: `while retries < MAX_RETRIES`
MayRetry_OneMore(n) == n <= MAX_RETRIES
MayRetry(n) == n < MAX_RETRIES

\* lines 92-94: another attempt: the ranged GET is sent through the proxy of `port`.
DcSend(w) ==
    /\ Alive
    /\ pc[w] = "dc_loop"
    /\ MayRetry(retries[w])
    /\ sent' = [sent EXCEPT ![w] = @ + 1]
    /\ pc' = [pc EXCEPT ![w] = "dc_wait"]
    /\ UNCHANGED <<thread_count, busy, lock, ret, port, scan>>
    /\ UNCHANGED <<size, head_resp, get_resp, i, taskq, result, task, retries, data, files,
                   files0, output, probe_requests, dispatched, settled, io_errors, exit_code>>

\* line 99: len(data) == byterange[1] - byterange[0] + 1
LengthMatches_AtLeast(n, tk) == n >= RangeLength(tk)
LengthMatches(n, tk) == n = RangeLength(tk)

\* lines 107, 110: after `retries += 1` control is back at the loop test of line 92,
\* with the port still held.
RetryLabel_ReleaseFirst == "rp_lock"
RetryLabel == "dc_loop"

\* lines 94-110: the answer. An error or a bad status raises RequestException; a
\* body of the wrong length is refused; each of these adds one to `retries`. A
\* refused body is never read again, so `data` keeps only an accepted one.
DcResponse(w) ==
    /\ Alive
    /\ pc[w] = "dc_wait"
    /\ \E r \in ChunkResponses(task[w]) :
          IF r.kind = "body" /\ LengthMatches(r.n, task[w])
             THEN /\ data' = [data EXCEPT ![w] = r.n]
                  /\ pc' = [pc EXCEPT ![w] = "dc_write"]
                  /\ UNCHANGED retries
             ELSE /\ data' = [data EXCEPT ![w] = 0]
                  /\ retries' = [retries EXCEPT ![w] = @ + 1]
                  /\ pc' = [pc EXCEPT ![w] = RetryLabel]
    /\ UNCHANGED <<thread_count, busy, lock, ret, port, scan>>
    /\ UNCHANGED <<size, head_resp, get_resp, i, taskq, result, task, files, files0,
                   output, probe_requests, sent, dispatched, settled, io_errors, exit_code>>

\* download_chunk returns or raises: its locals are gone.
EndCall(w) ==
    /\ task' = [task EXCEPT ![w] = NoTask]
    /\ retries' = [retries EXCEPT ![w] = 0]
    /\ data' = [data EXCEPT ![w] = 0]
    /\ sent' = [sent EXCEPT ![w] = 0]
    /\ DropLocals(w)

\* What writing the partial file can do: succeed; raise in open(), the file left as
\* it was; raise in write(), the file left truncated.
WriteOutcomes == {"ok", "open_error", "write_error"}

\* lines 100-101: open(progress_file, 'wb') and file.write(data). An OSError is not a
\* RequestException: it leaves download_chunk, with the port still marked busy, and
\* becomes the task's result.
DcWrite(w, o) ==
    /\ Alive
    /\ pc[w] = "dc_write"
    /\ CASE o = "ok" ->
              /\ files' = [files EXCEPT ![task[w].chunk] = File(data[w], "srv")]
              /\ pc' = [pc EXCEPT ![w] = "rp_lock"]
              /\ ret' = [ret EXCEPT ![w] = "dc_fetched"]
              /\ UNCHANGED <<result, io_errors, port, scan, task, retries, data, sent>>
         [] o \in {"open_error", "write_error"} ->
              /\ files' = IF o = "write_error"
                             THEN [files EXCEPT ![task[w].chunk] = File(0, "srv")]
                             ELSE files
              /\ io_errors' = io_errors + 1
              /\ result' = [kind |-> "raised", first |-> 0, len |-> 0]
              /\ pc' = [pc EXCEPT ![w] = "idle"]
              /\ EndCall(w)
    /\ UNCHANGED <<thread_count, busy, lock>>
    /\ UNCHANGED <<size, head_resp, get_resp, i, taskq, files0,
                   output, probe_requests, dispatched, settled, exit_code>>

\* lines 112-113: the loop ended without a success: give the port back.
DcGiveUp(w) ==
    /\ Alive
    /\ pc[w] = "dc_loop"
    /\ ~MayRetry(retries[w])
    /\ pc' = [pc EXCEPT ![w] = "rp_lock"]
    /\ ret' = [ret EXCEPT ![w] = "dc_failed"]
    /\ UNCHANGED <<thread_count, busy, lock, port, scan>>
    /\ UNCHANGED runvars

\* line 104: return byterange[0], data    line 114: return None
DcReturn(w) ==
    /\ Alive
    /\ pc[w] \in {"dc_fetched", "dc_failed"}
    /\ result' = IF pc[w] = "dc_fetched"
                    THEN [kind |-> "fetched", first |-> task[w].first, len |-> data[w]]
                    ELSE [kind |-> "failed", first |-> 0, len |-> 0]
    /\ pc' = [pc EXCEPT ![w] = "idle"]
    /\ EndCall(w)
    /\ UNCHANGED <<thread_count, busy, lock>>
    /\ UNCHANGED <<size, head_resp, get_resp, i, taskq, files, files0,
                   output, probe_requests, dispatched, settled, io_errors, exit_code>>

\* ------------------------------------------------------------- one run
\* PortManager.__init__, lines 14-19: every port starts free, the lock unheld.
InitPortManager ==
    /\ thread_count \in 1..MaxThreads
    /\ busy = [k \in 1..thread_count |-> FALSE]
    /\ lock = {}
    /\ port = [t \in Threads |-> 0]
    /\ scan = [t \in Threads |-> 1]

InitRunIdle ==
    /\ size = <<>>
    /\ head_resp = NoResp
    /\ get_resp = NoResp
    /\ i = 0
    /\ taskq = <<>>
    /\ result = NoResult
    /\ task = [w \in Workers |-> NoTask]
    /\ retries = [w \in Workers |-> 0]
    /\ data = [w \in Workers |-> 0]
    /\ files \in [ChunkIds -> InitialFiles]
    /\ files0 = files
    /\ output = NoOutput
    /\ probe_requests = 0
    /\ sent = [w \in Workers |-> 0]
    /\ dispatched = <<>>
    /\ settled = [c \in ChunkIds |-> "pending"]
    /\ io_errors = 0
    /\ exit_code = -1


\* main, lines 135-138: the ports and their manager are built, get_file_size starts
\* with get_port (line 41); /tmp holds whatever partial files earlier runs left.
Init ==
    /\ InitPortManager
    /\ InitRunIdle
    /\ pc = [t \in Threads |-> IF t = MainThread THEN "gp_lock" ELSE "unspawned"]
    /\ ret = [t \in Threads |-> IF t = MainThread THEN "gfs_leased" ELSE "none"]

MainStep ==
    \/ GfsReturnPort
    \/ GfsHeadSend
    \/ \E r \in HeadResponses : GfsHeadResponse(r)
    \/ GfsGetSend
    \/ \E r \in GetResponses : GfsGetResponse(r)
    \/ MainExitUnknownSize
    \/ MainSetup
    \/ MainSkip
    \/ MainDispatch
    \/ MainGetResult
    \/ MainLoopEnd
    \/ MainVerify
    \/ \E ok \in BOOLEAN : MainOpenOutput(ok)
    \/ \E o \in ConcatOutcomes : MainConcat(o)
    \/ MainDone

WorkerStep(w) ==
    \/ WorkerTake(w)
    \/ DcSend(w)
    \/ DcResponse(w)
    \/ \E o \in WriteOutcomes : DcWrite(w, o)
    \/ DcGiveUp(w)
    \/ DcReturn(w)

Next ==
    \/ MainStep
    \/ \E w \in Workers : WorkerStep(w)
    \/ \E t \in Threads : PortManagerStep(t)

\* One run of the program.
Spec == Init /\ [][Next]_vars

\* One run of the program with every thread scheduled again and again.
FairSpec ==
    /\ Init
    /\ [][Next]_vars
    /\ WF_vars(MainStep)
    /\ \A w \in Workers : WF_vars(WorkerStep(w))
    /\ \A t \in Threads : WF_vars(PortManagerStep(t))

\* ------------------------------------------- concurrent PortManager clients
\* Every thread leases a port and gives it back, again and again, the way
\* download_chunk does (get_port at line 78, return_port at lines 103 and 113), with
\* all threads running at once.

\* port = port_manager.get_port()
ClientAcquire(t) ==
    /\ pc[t] = "client_idle"
    /\ pc' = [pc EXCEPT ![t] = "gp_lock"]
    /\ ret' = [ret EXCEPT ![t] = "client_holding"]
    /\ UNCHANGED <<thread_count, busy, lock, port, scan>>
    /\ UNCHANGED runvars

\* port_manager.return_port(port)
ClientRelease(t) ==
    /\ pc[t] = "client_holding"
    /\ pc' = [pc EXCEPT ![t] = "rp_lock"]
    /\ ret' = [ret EXCEPT ![t] = "client_idle"]
    /\ UNCHANGED <<thread_count, busy, lock, port, scan>>
    /\ UNCHANGED runvars

InitClients ==
    /\ InitPortManager
    /\ pc = [t \in Threads |-> "client_idle"]
    /\ ret = [t \in Threads |-> "client_idle"]
    /\ InitRunIdle
    /\ files = [c \in ChunkIds |-> NoFile]

ClientStep(t) ==
    \/ ClientAcquire(t)
    \/ ClientRelease(t)
    \/ PortManagerStep(t)

NextClients == \E t \in Threads : ClientStep(t)

\* Concurrent clients of one PortManager.
SpecClients == InitClients /\ [][NextClients]_vars

\* The same, with every thread scheduled again and again and with a lock that a
\* waiting thread gets if the lock is free again and again.
SpecClientsFair ==
    /\ InitClients
    /\ [][NextClients]_vars
    /\ \A t \in Threads : WF_vars(ClientStep(t))
    /\ \A t \in Threads : SF_vars(GetPortLock(t))
    /\ \A t \in Threads : SF_vars(ReturnPortLock(t))

\* A thread holds a lease from the return of its get_port (line 27) to the end of its
\* matching return_port (line 31).
HoldsLease(t) == pc[t] \in {"client_holding"} \/ (pc[t] \in {"rp_lock", "rp_free"})
InGetPort(t) == pc[t] \in {"gp_lock", "gp_scan", "gp_take"}

\* C1: under any interleaving of get_port and return_port calls, two threads that
\* hold a lease at the same time never hold the same port.
C1_NoDoubleLease ==
    \A t1 \in Threads : \A t2 \in Threads :
        (t1 # t2 /\ HoldsLease(t1) /\ HoldsLease(t2)) => port[t1] # port[t2]

\* Two threads hold leases (on different ports) while a third is inside get_port.
C1_Witness ==
    \E t1 \in Threads : \E t2 \in Threads : \E t3 \in Threads :
        /\ t1 # t2 /\ t3 \notin {t1, t2}
        /\ pc[t1] = "client_holding" /\ pc[t2] = "client_holding"
        /\ port[t1] # port[t2]
        /\ InGetPort(t3)

\* C2: a thread that called get_port eventually holds a port, whenever every holder
\* gives its port back.
C2_BlockedCallerEventuallyGetsPort ==
    \A t \in Threads : InGetPort(t) ~> (pc[t] = "client_holding")

\* ------------------------------------------------------- claims on one run
\* get_file_size has returned a size main accepts.
SizeKnown == IF IsNone(size) THEN FALSE ELSE Val(size) > 0
Total == Val(size)
ChunksOf(n) == 0..(NumChunks(n) - 1)

\* The length of range c of a file of n bytes: end - start + 1.
LengthOfRange(n, c) == RangeLast(n, c) - RangeFirst(n, c) + 1

\* A worker's ranged GET is on its way: sent, not yet answered.
FetchInFlight(w) == pc[w] = "dc_wait"
TwoFetchesInFlight ==
    \E w1 \in Workers : \E w2 \in Workers :
        w1 # w2 /\ FetchInFlight(w1) /\ FetchInFlight(w2) /\ port[w1] # port[w2]

\* The dispatch loop starts with two or more threads and two or more chunks to fetch.
ParallelWorkAhead ==
    /\ pc[MainThread] = "loop" /\ i = 0
    /\ thread_count >= 2
    /\ Cardinality({c \in ChunksOf(Total) : ~Resumable(Total, c)}) >= 2

\* C3: in a run with two or more threads and two or more chunks to fetch, two chunk
\* fetches are at some time in flight together, through different ports.
C3_FetchesRunInParallel == [](ParallelWorkAhead => <>TwoFetchesInFlight)

\* What the code does instead: at most one download_chunk call is ever running.
C3_FetchesAreSerialized ==
    Cardinality({w \in Workers : pc[w] \notin {"unspawned", "idle"}}) <= 1

\* C4: download_chunk never returns a success whose length differs from
\* end - start + 1 of its byterange, and never completes the write of a partial file
\* of another length, whatever the server answered before.
C4_ExactLengthOnly ==
    /\ \A w \in Workers :
          (pc[w] = "dc_write" \/ pc[w] = "dc_fetched" \/ ret[w] = "dc_fetched")
              => data[w] = task[w].last - task[w].first + 1
    /\ (pc[MainThread] = "wait" /\ result.kind = "fetched")
          => /\ result.len = LengthOfRange(Total, i)
             /\ result.first = RangeFirst(Total, i)
             /\ files[i] = File(LengthOfRange(Total, i), "srv")
    /\ \A c \in ChunkIds :
          (SizeKnown /\ files[c].exists /\ files[c] # files0[c] /\ result.kind # "raised")
              => files[c].size = LengthOfRange(Total, c)

\* A success after refused answers: the worker is about to return its data.
C4_Witness ==
    \E w \in Workers : pc[w] = "dc_fetched" /\ retries[w] >= 2

\* C5: one download_chunk call sends at most MAX_RETRIES requests; every failed
\* answer is counted by `retries`; the call gives up after exactly MAX_RETRIES
\* failures, with no further request.
C5_AtMostMaxRetriesRequests ==
    \A w \in Workers :
        /\ sent[w] <= MAX_RETRIES
        /\ retries[w] <= MAX_RETRIES
        /\ pc[w] = "dc_loop" => sent[w] = retries[w]
        /\ pc[w] \in {"dc_wait", "dc_write", "dc_fetched"} => sent[w] = retries[w] + 1
        /\ (pc[w] = "dc_failed" \/ ret[w] = "dc_failed")
              => (sent[w] = MAX_RETRIES /\ retries[w] = MAX_RETRIES)

\* C5, the termination itself: under fair scheduling every download_chunk call that
\* has started ends (checked under FairSpec).
C5_EveryCallEnds ==
    \A w \in Workers : (pc[w] \notin {"unspawned", "idle"}) ~> (pc[w] = "idle")

\* A call has given up after its fifth failure.
C5_Witness ==
    \E w \in Workers : pc[w] = "dc_failed" /\ sent[w] = MAX_RETRIES

\* C6: for the total size of the run, the ranges of the dispatch loop start at 0,
\* follow one another without gap or overlap, end at size - 1, are
\* ceil(size / chunksize) in number, and range c has the length the resume and
\* verification checks expect of partial file c.
C6_PlanCoversFile ==
    SizeKnown =>
        /\ NumChunks(Total) >= 1
        /\ NumChunks(Total) * chunksize >= Total
        /\ (NumChunks(Total) - 1) * chunksize < Total
        /\ RangeFirst(Total, 0) = 0
        /\ RangeLast(Total, NumChunks(Total) - 1) = Total - 1
        /\ \A c \in ChunksOf(Total) :
              /\ RangeFirst(Total, c) <= RangeLast(Total, c)
              /\ (c + 1 < NumChunks(Total))
                    => RangeFirst(Total, c + 1) = RangeLast(Total, c) + 1
              /\ ExpectedFileSize(Total, c) = LengthOfRange(Total, c)
        /\ \A k \in 1..Len(taskq) :
              /\ taskq[k].first = RangeFirst(Total, taskq[k].chunk)
              /\ taskq[k].last = RangeLast(Total, taskq[k].chunk)

\* The second chunk of a file of chunksize + 1 bytes, a range of one byte, is dispatched.
C6_Witness ==
    /\ SizeKnown /\ Total = chunksize + 1
    /\ taskq # <<>> /\ Head(taskq).chunk = 1 /\ Head(taskq).first = Head(taskq).last

\* The run found every partial file of the plan, each of its range's length.
AllPresent ==
    /\ SizeKnown
    /\ \A c \in ChunksOf(Total) :
          files0[c].exists /\ files0[c].size = LengthOfRange(Total, c)
AllServerBytes == \A c \in ChunksOf(Total) : files0[c].ver = "srv"
NonePresent == \A c \in ChunkIds : ~files0[c].exists

\* The output of a run that fetches every chunk: the server's ranges in order.
FromScratchOutput(n) ==
    [k \in 1..NumChunks(n) |->
        [chunk |-> k - 1, size |-> LengthOfRange(n, k - 1), ver |-> "srv"]]
Finished == pc[MainThread] = "done"

\* C7 as stated: a run that finds every partial file present and correctly sized
\* sends no request at all and ends with the output of a from-scratch run.
C7_ResumeSendsNothing ==
    AllPresent =>
        /\ probe_requests = 0
        /\ \A w \in Workers : sent[w] = 0
        /\ Finished => output.chunks = FromScratchOutput(Total)

\* C7 as amended: such a run sends the size probe (one or two requests) and nothing
\* else: no chunk is dispatched, no worker sends a request; its output is the
\* partial files it found, in order, which is the output of a from-scratch run when
\* those files hold the server's bytes.
C7_ResumeFetchesNothing ==
    /\ AllPresent =>
          /\ probe_requests \in {1, 2}
          /\ dispatched = <<>> /\ taskq = <<>>
          /\ \A w \in Workers : sent[w] = 0 /\ pc[w] \in {"unspawned", "idle"}
          /\ Finished =>
                /\ Len(output.chunks) = NumChunks(Total)
                /\ \A k \in 1..NumChunks(Total) :
                      output.chunks[k] = [chunk |-> k - 1, size |-> files0[k - 1].size,
                                          ver |-> files0[k - 1].ver]
                /\ AllServerBytes => output.chunks = FromScratchOutput(Total)
    /\ (SizeKnown /\ NonePresent /\ Finished) => output.chunks = FromScratchOutput(Total)

\* A resumed run of two chunks has finished.
C7_Witness ==
    AllPresent /\ AllServerBytes /\ Finished /\ NumChunks(Total) = 2

\* Chunk c has had its turn in the dispatch loop.
Settled(c) == settled[c] # "pending"
WasDispatched(c) == \E k \in 1..Len(dispatched) : dispatched[k] = c
RightSized0(c) == files0[c].exists /\ files0[c].size = LengthOfRange(Total, c)

\* C8: in the dispatch loop a chunk is skipped exactly if its partial file exists
\* with the length of its range; every other chunk is handed to download_chunk.
C8_SkipIffResumable ==
    SizeKnown =>
        \A c \in ChunksOf(Total) :
            /\ settled[c] = "skipped" => (RightSized0(c) /\ ~WasDispatched(c))
            /\ (Settled(c) /\ settled[c] # "skipped") => (~RightSized0(c) /\ WasDispatched(c))
            /\ WasDispatched(c) => ~RightSized0(c)
            /\ (pc[MainThread] \in {"loop", "wait"} /\ c < i) => Settled(c)
            /\ (pc[MainThread] \in {"verify", "exit_verify", "concat", "done"}) => Settled(c)

\* One chunk was skipped, another, whose partial file had a wrong size, was refetched.
C8_Witness ==
    /\ SizeKnown
    /\ \E c1 \in ChunksOf(Total) : \E c2 \in ChunksOf(Total) :
          /\ settled[c1] = "skipped"
          /\ settled[c2] = "fetched" /\ files0[c2].exists

SomeChunkFailed == \E c \in ChunkIds : settled[c] = "failed"

\* C9: once a chunk has failed all its attempts, the loop goes on over the other
\* chunks and the run ends at the verification with a non-zero status; the output
\* file is never created and no partial file of a fetched chunk is removed. (A later
\* chunk whose partial-file write raises OSError ends the run in the loop instead.)
C9_FailedChunkStopsAtVerification ==
    (SizeKnown /\ SomeChunkFailed) =>
        /\ ~output.exists
        /\ pc[MainThread] \in {"loop", "wait", "verify", "exit_verify", "crashed"}
        /\ \A c \in ChunksOf(Total) :
              settled[c] = "fetched" => files[c] = File(LengthOfRange(Total, c), "srv")
        /\ pc[MainThread] \in {"verify", "exit_verify"}
              => \A c \in ChunksOf(Total) : Settled(c)
        /\ ~Alive => exit_code = 1
        /\ (~Alive /\ io_errors = 0) => pc[MainThread] = "exit_verify"

\* The first chunk failed, the second was fetched, the run ended at the verification.
C9_Witness ==
    /\ SizeKnown /\ pc[MainThread] = "exit_verify"
    /\ settled[0] = "failed" /\ settled[1] = "fetched" /\ files[1].exists

\* Both probes failed: the HEAD raised, the ranged GET raised or had no content-range.
ProbeFailedTwice ==
    /\ head_resp.kind \in {"error", "status"}
    /\ get_resp.kind \in {"error", "status", "no_range"}

\* C10: when both probes fail the size is unknown and the run ends with status 1
\* before any chunk work: no worker runs, nothing is dispatched, the partial files
\* are as the run found them and there is no output file.
NoChunkWork ==
    /\ dispatched = <<>> /\ taskq = <<>>
    /\ \A w \in Workers : pc[w] = "unspawned" /\ sent[w] = 0
    /\ files = files0
    /\ ~output.exists

C10_NoSizeNoWork ==
    /\ [](ProbeFailedTwice =>
            /\ IsNone(size)
            /\ pc[MainThread] \in {"main_check", "exit_size"}
            /\ ~Alive => exit_code = 1
            /\ NoChunkWork)
    /\ [][(ProbeFailedTwice /\ pc[MainThread] = "main_check")
            => (pc'[MainThread] = "exit_size" /\ exit_code' = 1 /\ NoChunkWork')]_vars

\* The run has ended for want of a content-range header, old partial files untouched.
C10_Witness ==
    /\ ProbeFailedTwice /\ get_resp.kind = "no_range"
    /\ pc[MainThread] = "exit_size"
    /\ \E c \in ChunkIds : files[c].exists

\* The concatenation was interrupted: the output file was opened and main died.
ConcatInterrupted == output.exists /\ pc[MainThread] = "crashed"

\* C11: partial files are removed only after the whole reassembly has succeeded: when
\* the concatenation is interrupted at any chunk, every partial file of the plan is
\* still there.
C11_PartialsKeptWhenInterrupted ==
    (SizeKnown /\ ConcatInterrupted) => \A c \in ChunksOf(Total) : files[c].exists

\* The bytes of a sequence of written chunks.
RECURSIVE SumSizes(_)
SumSizes(seq) == IF seq = <<>> THEN 0 ELSE Head(seq).size + SumSizes(Tail(seq))

\* Where the k-th written chunk starts in the output file.
OffsetIn(seq, k) == SumSizes(SubSeq(seq, 1, k - 1))

\* C12 as stated: when the run completes, the output is the partial files in chunk
\* order, as long as the total size, and the bytes at i * chunksize are those of
\* chunk i's accepted response (the server's bytes of that range).
C12_OutputIsAcceptedResponses ==
    Finished =>
        /\ SumSizes(output.chunks) = Total
        /\ \A k \in 1..Len(output.chunks) :
              /\ output.chunks[k].chunk = k - 1
              /\ OffsetIn(output.chunks, k) = (k - 1) * chunksize
              /\ output.chunks[k].ver = "srv"

\* C12 as amended: the bytes at i * chunksize are those of chunk i's accepted response
\* when chunk i was fetched in this run, and those of the partial file the run found
\* when chunk i was skipped.
C12_OutputIsPartialsInOrder ==
    Finished =>
        /\ SumSizes(output.chunks) = Total
        /\ Len(output.chunks) * chunksize >= Total
        /\ \A k \in 1..Len(output.chunks) :
              /\ output.chunks[k].chunk = k - 1
              /\ OffsetIn(output.chunks, k) = (k - 1) * chunksize
              /\ output.chunks[k].size = LengthOfRange(Total, k - 1)
              /\ settled[k - 1] \in {"fetched", "skipped"}
              /\ settled[k - 1] = "fetched" => output.chunks[k].ver = "srv"
              /\ settled[k - 1] = "skipped" => output.chunks[k].ver = files0[k - 1].ver

\* A run of two chunks has completed, one chunk skipped, the other fetched.
C12_Witness ==
    /\ Finished /\ Len(output.chunks) = 2
    /\ \E c \in {0, 1} : settled[c] = "skipped" /\ settled[1 - c] = "fetched"

\* No fault of the file system has struck the run.
NoIoError == io_errors = 0

\* C13: once the size is resolved and every dispatched chunk is fetched within its
\* attempts, the run cannot stop anywhere but at its successful end (it is never
\* stuck before, and no other exit is open to it), and that end has exit status 0,
\* the output complete, every partial file removed and every port free. File-system
\* faults are outside the claim's scenario.
C13_SuccessfulRunCompletes ==
    /\ Alive => ENABLED Next
    /\ (SizeKnown /\ ~Alive /\ ~SomeChunkFailed /\ NoIoError) => Finished
    /\ Finished =>
          /\ exit_code = 0
          /\ output.exists /\ SumSizes(output.chunks) = Total
          /\ \A c \in ChunkIds : ~files[c].exists \/ c \notin ChunksOf(Total)
          /\ \A k \in Ports : ~busy[k]
          /\ lock = {}

\* The same as a liveness property of the fair run: a run whose size is resolved, in
\* which no chunk ever fails and no file-system fault ever strikes, reaches its end.
C13_EventuallyFinished ==
    (SizeKnown /\ [](~SomeChunkFailed /\ NoIoError)) ~> Finished

\* A run that fetched both chunks of a two-chunk file has completed.
C13_Witness ==
    /\ Finished /\ exit_code = 0
    /\ Len(dispatched) = 2 /\ Len(output.chunks) = 2
    /\ \A k \in Ports : ~busy[k]

\* A download_chunk invocation of worker w is in flight: taken from the pool's queue
\* and not yet returned.
InFlight(w) == pc[w] \notin {"unspawned", "idle"}

\* The pool is running: main is between the dispatch loop and its end or death.
PoolRunning == \E w \in Workers : pc[w] # "unspawned"

BusyPorts == {k \in Ports : busy[k]}

\* C14: download_chunk gives its port back on every exit path, so once the pool runs
\* a port is busy only while an invocation is in flight: with no invocation in flight
\* no port is busy, and there are never more busy ports than invocations in flight.
C14_NoLeaseOutlivesItsCall ==
    PoolRunning => Cardinality(BusyPorts) <= Cardinality({w \in Workers : InFlight(w)})

\* A request of thread t is on the wire.
RequestInFlight(t) == pc[t] \in {"gfs_head_wait", "gfs_get_wait", "dc_wait"}

\* Thread t holds the lease of the port its requests go through.
LeasedToSender(t) == IF port[t] \in Ports THEN busy[port[t]] ELSE FALSE

\* C15: the port leased by get_file_size stays busy for the whole life of the probe
\* request: no request is on the wire through a port that is not leased to its sender.
C15_ProbeRequestUnderLease ==
    \A t \in Threads : RequestInFlight(t) => LeasedToSender(t)

\* C16: after the HEAD request failed, get_file_size takes a lease of its own for the
\* fallback GET of bytes 0-0 and gives it back afterwards: the fallback is on the wire
\* under a lease, and get_file_size returns with no port busy.
C16_FallbackUnderFreshLease ==
    /\ pc[MainThread] = "gfs_get_wait" =>
          (head_resp.kind \in {"error", "status"} /\ LeasedToSender(MainThread))
    /\ pc[MainThread] = "main_check" => BusyPorts = {}

\* The HEAD request was answered with success and no usable content-length.
HeadWithoutLength == head_resp.kind \in {"no_length", "bad_length"}

\* C17: after a successful HEAD whose content-length is absent or not a number,
\* get_file_size returns 0 without raising and without the fallback request, and
\* main ends with a non-zero status before any chunk work.
C17_NoLengthReturnsZero ==
    HeadWithoutLength =>
        /\ size = <<0>>
        /\ probe_requests = 1
        /\ pc[MainThread] \in {"main_check", "exit_size"}
        /\ ~Alive => exit_code = 1
        /\ NoChunkWork

PortHolders == {t \in Threads : port[t] # 0}

InRetryLoop(w) == pc[w] \in {"dc_loop", "dc_wait", "dc_write"}

\* C20: a download_chunk invocation holds one port from its first attempt to its
\* last: the port is taken before the first request, it is busy and held by no other
\* thread during the whole loop, it is given back only on the way out, and it is the
\* same port at every attempt.
C20_OnePortForAllAttempts ==
    /\ [](\A w \in Workers :
            /\ InRetryLoop(w) =>
                  /\ LeasedToSender(w)
                  /\ \A t \in Threads \ {w} : port[t] # port[w]
            /\ InGetPort(w) => (ret[w] = "dc_loop" /\ sent[w] = 0 /\ retries[w] = 0)
            /\ pc[w] \in {"rp_lock", "rp_free"} => ret[w] \in {"dc_fetched", "dc_failed"})
    /\ [][\A w \in Workers :
             (InRetryLoop(w) /\ InRetryLoop(w)') => (port'[w] = port[w] /\ busy'[port[w]])]_vars

\* The last of the five attempts is on the wire, through the port taken before the first.
C20_Witness ==
    \E w \in Workers :
        /\ pc[w] = "dc_wait" /\ retries[w] = MAX_RETRIES - 1 /\ sent[w] = MAX_RETRIES
        /\ LeasedToSender(w)

====
